---- MODULE Spec2Model ----
(***************************************************************************)
(* Price feeds of market_maker_keeper/price.py.                            *)
(*                                                                         *)
(* One behaviour follows ONE feed instance: Init picks which class was     *)
(* constructed (kind) and its expiry.  A feed with a background thread has *)
(* one writer (position wpc); the callers of get_price() are the threads   *)
(* in Readers (position rd[r].pc).  Python threads are switched between    *)
(* bytecodes, so the threads interleave between the statements that touch  *)
(* the feed's fields: one step is one such statement, together with the    *)
(* statements around it that touch nothing another thread can see (a log   *)
(* line, a local, a return).  Time is an integer clock (time.time())       *)
(* advanced by Tick; it starts at 1, so that the initial timestamp 0 is    *)
(* older than every observation.                                           *)
(*                                                                         *)
(* A Wad (pymaker fixed point, 10^18 per unit) is an integer number of     *)
(* WadUnit-ths; the model keeps two decimals instead of eighteen.          *)
(*                                                                         *)
(* Variables marked "history" are not fields of the program: they record   *)
(* what happened, for the properties at the end.                           *)
(*                                                                         *)
(* Specifications: Spec (a feed of any class, two callers), SpecScaled (a  *)
(* SetzerPriceFeed behind ApplyTargetPrice), SpecFactory (create_price_feed *)
(* and the feed it returns), SpecRetry (a SetzerPriceFeed whose source      *)
(* fails many times in a row), SpecStream (a GdaxPriceFeed), and, with the *)
(* fairness of the threads' own steps, SpecPolledFair and SpecStreamFair.  *)
(***************************************************************************)
EXTENDS Integers, Sequences, FiniteSets, TLC

\* ---------------------------------------------------------------- bounds
MaxTime == 2
MaxExpiry == 1
MaxReadings == 2
MaxRetries == 1
MaxFileOps == 3
MaxFailures == 12

\* ------------------------------------------------------------- constants
Readers == {"r1", "r2"}
Kinds == {"setzer", "gdax", "bibox", "file"}

WadUnit == 100

\* Python None for an Optional[Wad]; a present price carries, as history,
\* the number of the reading it came from.
None == [some |-> FALSE, val |-> 0, seq |-> 0]
Some(v, k) == [some |-> TRUE, val |-> v, seq |-> k]

\* A decimal text "w.hh" is the pair <<w, hh>>.
DecimalTexts == {<<100, 0>>, <<150, 25>>}

\* Wad.from_number: the decimal scaled to Wad units.
FromNumber(text) == text[1] * WadUnit + text[2]

\* What the setzer lookup can answer for a symbol.
SetzerPrices == {FromNumber(t) : t \in DecimalTexts}

\* What BiboxApi.ticker can answer: the best buy and sell as decimal texts.
BiboxTickers == {[buy |-> <<99, 50>>, sell |-> <<100, 50>>],
                 [buy |-> <<150, 0>>, sell |-> <<150, 50>>]}

\* A text that is no decimal, a field that is missing.
NoText == <<>>

\* Inbound GDAX frames: "invalid" is a frame that is not JSON or has no
\* 'type'; a ticker whose price is NoText has no parsable 'price'.
GdaxMessages ==
    {[type |-> "ticker", price |-> t] : t \in DecimalTexts \cup {NoText}}
    \cup {[type |-> y, price |-> NoText] :
             y \in {"subscriptions", "heartbeat", "unknown", "invalid"}}

\* The file: absent, or present with a content and a modification time.
\* ver counts the changes made to it.
NoFile == [exists |-> FALSE, content |-> NoText, mtime |-> 0, ver |-> 0]

\* vox.par() answers a Ray (10^27 per unit in pymaker): RayPerWad Ray
\* units make one Wad unit.
RayPerWad == 10
ParValues == {RayPerWad * WadUnit, 2 * RayPerWad * WadUnit}

\* Wad(ray): the Ray cut down to Wad precision.
WadFromRay(ray) == ray \div RayPerWad

\* Wad.__truediv__: fixed-point quotient, rounded down.
WadDiv(a, b) == (a * WadUnit) \div b

\* if self._retries > 10
RetryWarning == 10

\* A str is the sequence of its characters.
GdaxToken ==
    <<"g", "d", "a", "x", "-", "w", "e", "b", "s", "o", "c", "k", "e", "t">>
FixedPrefix == <<"f", "i", "x", "e", "d", ":">>
FilePrefix == <<"f", "i", "l", "e", ":">>
GdaxProduct == <<"E", "T", "H", "-", "U", "S", "D">>

\* price_feed_argument: None, or a str
NoSelector == [given |-> FALSE, text |-> <<>>]
Given(t) == [given |-> TRUE, text |-> t]

SelectorTexts ==
    {GdaxToken,
     <<"G", "D", "A", "X", "-", "W", "e", "b", "S", "o", "c", "k", "e", "t">>,
     FixedPrefix \o <<"4", "2", ".", "5">>,
     FixedPrefix \o <<"7">>,
     FixedPrefix \o <<"x">>,
     <<"F", "i", "x", "e", "d", ":", "7">>,
     FilePrefix \o <<"p">>,
     <<"f", "i", "l", "e">>,
     <<"e", "t", "h">>,
     <<>>}

Selectors == {NoSelector} \cup {Given(t) : t \in SelectorTexts}

\* What create_price_feed produced: the class constructed with its
\* arguments, or the exception raised.
NotMade ==
    [cls |-> "none", name |-> <<>>, fixed |-> 0, raised |-> "none"]
Product(cls, name, fixed) ==
    [cls |-> cls, name |-> name, fixed |-> fixed, raised |-> "none"]
Raised(e) == [NotMade EXCEPT !.raised = e]

\* The frame _on_open sends: the channels, each with its product_ids.
NoRequest == [type |-> "none", channels |-> {}]

VARIABLES
    kind,        \* which feed class this instance is
    wrapped,     \* whether callers reach it through ApplyTargetPrice
    expiry,      \* self.expiry
    threads,     \* background threads started by __init__
    now,         \* time.time()
    price,       \* self._price / self._last_price
    timestamp,   \* self._timestamp / self._last_timestamp
    expired,     \* self._expired
    retries,     \* SetzerPriceFeed._retries
    fails,       \* history: failed fetches since the last successful one
    warned,      \* history: the last failed fetch logged the retry warning
    retryCap,    \* how many failures in a row the source can produce
    selector,    \* create_price_feed: price_feed_argument
    tub,         \* create_price_feed: a Tub was supplied
    vox,         \* create_price_feed: a Vox was supplied
    made,        \* create_price_feed: what the call produced
    wpc,         \* where the background thread is
    conn,        \* GdaxPriceFeed: state of the websocket
    sent,        \* history: the subscribe request sent on this connection
    file,        \* FilePriceFeed: the file named by self.filename
    par,         \* ApplyTargetPrice: what vox.par() answers
    rd,          \* per calling thread: position in get_price(), locals, result
    readings,    \* history: readings the source has produced so far
    tsSeq,       \* history: the reading whose timestamp is stored
    observedAt,  \* history: when the feed last observed its source
    ticker,      \* history: text and time of the last ticker processed
    lastEvent,   \* history: last staleness transition logged
    dupEvent,    \* history: the same transition was logged twice in a row
    io           \* history: who has done blocking I/O

vars == <<kind, wrapped, expiry, threads, now, price, timestamp, expired,
          retries, fails, warned, retryCap, selector, tub, vox, made, wpc,
          conn, sent, file, par, rd, readings, tsSeq, observedAt, ticker,
          lastEvent, dupEvent, io>>

\* what only construction sets
confVars == <<kind, wrapped, expiry, threads, retryCap, selector, tub, vox,
              made>>
\* the websocket and what was sent on it
connVars == <<conn, sent>>
\* the retry counter and its history
retryVars == <<retries, fails, warned>>
feedVars == <<price, timestamp, expired>>
logVars == <<lastEvent, dupEvent>>
histVars == <<readings, tsSeq, observedAt, ticker, lastEvent, dupEvent, io>>
\* what a step of the background thread never touches
writerRest == <<confVars, now, file, par, rd>>
\* what a step of get_price() never touches
readerRest == <<confVars, now, retryVars, wpc, connVars, file, par>>

\* ---------------------------------------------------------- construction
InitialPrice_Zero == Some(0, 0)

\* __init__: self._price = None
InitialPrice == None

\* __init__: self._timestamp = 0
InitialTimestamp == 0

\* __init__: self._expired = True
InitialExpired == TRUE

BackgroundThreads_None(k) == 0

\* __init__: threading.Thread(target=self._background_run).start(), which
\* FilePriceFeed.__init__ does not do.
BackgroundThreads(k) == IF k \in {"setzer", "gdax", "bibox"} THEN 1 ELSE 0

\* A caller's frame: pc, the value held or returned (res), whether an
\* exception reached the caller (raised), and history taken during the call:
\* stale - the feed's last observation was older than expiry at the test;
\* seq   - the reading whose timestamp was tested;
\* beat  - that timestamp came from a heartbeat later than the last ticker;
\* ver   - the file's version when the call began;
\* base  - self._price when _read_price began.
Frame(pc, res, stale, seq, beat) ==
    [pc |-> pc, res |-> res, raised |-> FALSE, stale |-> stale, seq |-> seq,
     beat |-> beat, ver |-> 0, base |-> None]

IdleReader == Frame("idle", None, FALSE, 0, FALSE)

InitFeed ==
    /\ expiry \in 0..MaxExpiry
    /\ now = 1
    /\ price = InitialPrice
    /\ timestamp = InitialTimestamp
    /\ expired = InitialExpired
    /\ retries = 0
    /\ fails = 0
    /\ warned = FALSE
    /\ wpc = "idle"
    /\ conn = "closed"
    /\ sent = NoRequest
    /\ file = NoFile
    /\ rd = [r \in Readers |-> IdleReader]
    /\ threads = BackgroundThreads(kind)
    /\ readings = 0
    /\ tsSeq = 0
    /\ observedAt = 0
    /\ ticker = [text |-> NoText, at |-> 0]
    /\ lastEvent = "none"
    /\ dupEvent = FALSE
    /\ io = {}

\* The feed was constructed directly, not by create_price_feed.
Direct ==
    /\ selector = NoSelector
    /\ tub = FALSE
    /\ vox = FALSE
    /\ made = NotMade

\* A feed of any of the four classes, called directly.
Init ==
    /\ kind \in Kinds
    /\ wrapped = FALSE
    /\ retryCap = MaxRetries
    /\ Direct
    /\ par = RayPerWad * WadUnit
    /\ InitFeed

\* ApplyTargetPrice(SetzerPriceFeed(...), vox)
InitScaled ==
    /\ kind = "setzer"
    /\ wrapped = TRUE
    /\ retryCap = MaxRetries
    /\ Direct
    /\ par \in ParValues
    /\ InitFeed

\* ------------------------------------------------------------------ time
Tick ==
    /\ now < MaxTime
    /\ now' = now + 1
    /\ UNCHANGED <<confVars, feedVars, retryVars, wpc, connVars, file, par, rd,
                   histVars>>

\* --------------------------------------------------------------- logging
\* logger.info("... became available") / logger.warning("... has expired")
LogTransition(e) ==
    /\ lastEvent' = e
    /\ dupEvent' = (dupEvent \/ lastEvent = e)

\* ------------------------------------------------------- SetzerPriceFeed
SetzerFetchOk_KeepFirst ==
    /\ kind = "setzer" /\ wpc = "idle" /\ threads > 0
    /\ readings < MaxReadings
    /\ \E p \in SetzerPrices :
          price' = IF price.some THEN price ELSE Some(p, readings + 1)
    /\ retries' = 0
    /\ fails' = 0
    /\ warned' = FALSE
    /\ readings' = readings + 1
    /\ io' = io \cup {"background"}
    /\ wpc' = "stamp"
    /\ UNCHANGED <<writerRest, timestamp, expired, connVars, tsSeq, observedAt,
                   ticker, logVars>>

\* _fetch_price, try: self._price = Setzer().price(...); self._retries = 0
SetzerFetchOk ==
    /\ kind = "setzer" /\ wpc = "idle" /\ threads > 0
    /\ readings < MaxReadings
    /\ \E p \in SetzerPrices : price' = Some(p, readings + 1)
    /\ retries' = 0
    /\ fails' = 0
    /\ warned' = FALSE
    /\ readings' = readings + 1
    /\ io' = io \cup {"background"}
    /\ wpc' = "stamp"
    /\ UNCHANGED <<writerRest, timestamp, expired, connVars, tsSeq, observedAt,
                   ticker, logVars>>

\* self._timestamp = time.time()
SetzerStamp ==
    /\ kind = "setzer" /\ wpc = "stamp"
    /\ timestamp' = now
    /\ tsSeq' = readings
    /\ observedAt' = now
    /\ wpc' = "flag"
    /\ UNCHANGED <<writerRest, price, expired, retryVars, connVars, readings,
                   ticker, logVars, io>>

\* if self._expired: logger.info("... became available")
SetzerTestFlag ==
    /\ kind = "setzer" /\ wpc = "flag"
    /\ IF expired
         THEN LogTransition("available") /\ wpc' = "setflag"
         ELSE UNCHANGED logVars /\ wpc' = "idle"
    /\ UNCHANGED <<writerRest, feedVars, retryVars, connVars, readings, tsSeq,
                   observedAt, ticker, io>>

\* self._expired = False
SetzerSetFlag ==
    /\ kind = "setzer" /\ wpc = "setflag"
    /\ expired' = FALSE
    /\ wpc' = "idle"
    /\ UNCHANGED <<writerRest, price, timestamp, retryVars, connVars, histVars>>

AfterFailure_Stop == "stopped"

\* The except clause ends the turn of "while True"; after time.sleep(5) the
\* thread is at its next fetch.
AfterFailure == "idle"

RetryWarned_AtLeast(n) == n >= RetryWarning

\* if self._retries > 10: logger.warning("Failed to get price ...")
RetryWarned(n) == n > RetryWarning

\* _fetch_price, except: Setzer().price raised, nothing was assigned;
\* self._retries += 1; the warning; back in _background_run, time.sleep(5)
SetzerFetchFail ==
    /\ kind = "setzer" /\ wpc = "idle" /\ threads > 0
    /\ retries < retryCap
    /\ retries' = retries + 1
    /\ fails' = fails + 1
    /\ warned' = RetryWarned(retries + 1)
    /\ wpc' = AfterFailure
    /\ io' = io \cup {"background"}
    /\ UNCHANGED <<writerRest, feedVars, connVars, readings, tsSeq, observedAt,
                   ticker, logVars>>

\* _background_run: while True: self._fetch_price(); time.sleep(5)
SetzerBackgroundRun ==
    \/ SetzerFetchOk
    \/ SetzerStamp
    \/ SetzerTestFlag
    \/ SetzerSetFlag
    \/ SetzerFetchFail

\* -------------------------------------------------------- BiboxPriceFeed
\* Wad.from_number((float(result['buy']) + float(result['sell'])) / 2)
BiboxMid(t) == (FromNumber(t.buy) + FromNumber(t.sell)) \div 2

\* result = self.bibox_api.ticker(self.pair); self._last_price = ...
BiboxFetchOk ==
    /\ kind = "bibox" /\ wpc = "idle" /\ threads > 0
    /\ readings < MaxReadings
    /\ \E t \in BiboxTickers : price' = Some(BiboxMid(t), readings + 1)
    /\ readings' = readings + 1
    /\ io' = io \cup {"background"}
    /\ wpc' = "stamp"
    /\ UNCHANGED <<writerRest, timestamp, expired, retryVars, connVars, tsSeq,
                   observedAt, ticker, logVars>>

\* self._last_timestamp = time.time()
BiboxStamp ==
    /\ kind = "bibox" /\ wpc = "stamp"
    /\ timestamp' = now
    /\ tsSeq' = readings
    /\ observedAt' = now
    /\ wpc' = "flag"
    /\ UNCHANGED <<writerRest, price, expired, retryVars, connVars, readings,
                   ticker, logVars, io>>

\* if self._expired: logger.info("... became available")
BiboxTestFlag ==
    /\ kind = "bibox" /\ wpc = "flag"
    /\ IF expired
         THEN LogTransition("available") /\ wpc' = "setflag"
         ELSE UNCHANGED logVars /\ wpc' = "idle"
    /\ UNCHANGED <<writerRest, feedVars, retryVars, connVars, readings, tsSeq,
                   observedAt, ticker, io>>

\* self._expired = False
BiboxSetFlag ==
    /\ kind = "bibox" /\ wpc = "setflag"
    /\ expired' = FALSE
    /\ wpc' = "idle"
    /\ UNCHANGED <<writerRest, price, timestamp, retryVars, connVars, histVars>>

\* except Exception: the ticker call or its parsing raised; only a warning;
\* then time.sleep(5) and the next turn of the loop
BiboxFetchFail ==
    /\ kind = "bibox" /\ wpc = "idle" /\ threads > 0
    /\ wpc' = AfterFailure
    /\ io' = io \cup {"background"}
    /\ UNCHANGED <<writerRest, feedVars, retryVars, connVars, readings, tsSeq,
                   observedAt, ticker, logVars>>

\* _background_run: while True: try: ... except: ...; time.sleep(5)
BiboxBackgroundRun ==
    \/ BiboxFetchOk
    \/ BiboxStamp
    \/ BiboxTestFlag
    \/ BiboxSetFlag
    \/ BiboxFetchFail

\* --------------------------------------------------------- GdaxPriceFeed
\* _on_open: ws.send('{"type": "subscribe", "channels": [...]}')
GdaxSubscribe ==
    [type |-> "subscribe",
     channels |-> {[name |-> "ticker", product_ids |-> <<GdaxProduct>>],
                   [name |-> "heartbeat", product_ids |-> <<GdaxProduct>>]}]

GdaxAfterClose_Stop == "stopped"

\* run_forever returns; time.sleep(1); back to the head of "while True"
GdaxAfterClose == "closed"

\* _background_run: ws = websocket.WebSocketApp(...); ws.run_forever(...)
\* starts to connect
GdaxConnect ==
    /\ kind = "gdax" /\ threads > 0
    /\ conn = "closed" /\ wpc = "idle"
    /\ conn' = "connecting"
    /\ io' = io \cup {"background"}
    /\ UNCHANGED <<writerRest, feedVars, retryVars, wpc, sent, readings,
                   tsSeq, observedAt, ticker, logVars>>

\* The connection is established: run_forever calls _on_open, before it
\* reads any frame.
GdaxOnOpen ==
    /\ kind = "gdax"
    /\ conn = "connecting" /\ wpc = "idle"
    /\ conn' = "open"
    /\ sent' = GdaxSubscribe
    /\ UNCHANGED <<writerRest, feedVars, retryVars, wpc, histVars>>

\* The connection cannot be established: _on_error, run_forever returns.
GdaxOnError ==
    /\ kind = "gdax"
    /\ conn = "connecting" /\ wpc = "idle"
    /\ conn' = GdaxAfterClose
    /\ UNCHANGED <<writerRest, feedVars, retryVars, wpc, sent, histVars>>

\* The connection is lost or closed: _on_error / _on_close, run_forever
\* returns.
GdaxDisconnect ==
    /\ kind = "gdax"
    /\ conn = "open" /\ wpc = "idle"
    /\ conn' = GdaxAfterClose
    /\ sent' = NoRequest
    /\ UNCHANGED <<writerRest, feedVars, retryVars, wpc, histVars>>

GdaxProcessHeartbeat_Nothing == timestamp' = timestamp

\* _process_heartbeat: self._last_timestamp = time.time()
GdaxProcessHeartbeat == timestamp' = now

GdaxOnMessage_UnknownBeats(m) ==
    /\ kind = "gdax"
    /\ conn = "open" /\ wpc = "idle"
    /\ io' = io \cup {"background"}
    /\ IF m.type = "invalid" \/ m.type = "subscriptions"
         THEN UNCHANGED <<feedVars, wpc, readings, tsSeq, observedAt, ticker>>
       ELSE IF m.type = "ticker"
         THEN IF m.price \in DecimalTexts
                THEN /\ readings < MaxReadings
                     /\ price' = Some(FromNumber(m.price), readings + 1)
                     /\ readings' = readings + 1
                     /\ ticker' = [ticker EXCEPT !.text = m.price]
                     /\ wpc' = "stamp"
                     /\ UNCHANGED <<timestamp, expired, tsSeq, observedAt>>
                ELSE UNCHANGED <<feedVars, wpc, readings, tsSeq, observedAt,
                                 ticker>>
       ELSE IF m.type = "heartbeat" \/ m.type = "unknown"
         THEN /\ GdaxProcessHeartbeat
              /\ observedAt' = now
              /\ UNCHANGED <<price, expired, wpc, readings, tsSeq, ticker>>
       ELSE UNCHANGED <<feedVars, wpc, readings, tsSeq, observedAt, ticker>>
    /\ UNCHANGED <<writerRest, retryVars, connVars, logVars>>

\* _on_message: dispatch on message_obj['type'].  A ticker runs the first
\* statement of _process_ticker, self._last_price = Wad.from_number(price);
\* a frame that is not JSON, has no 'type', or is a ticker without a
\* parsable price raises before any assignment and is only logged.
GdaxOnMessage(m) ==
    /\ kind = "gdax"
    /\ conn = "open" /\ wpc = "idle"
    /\ io' = io \cup {"background"}
    /\ IF m.type = "invalid" \/ m.type = "subscriptions"
         THEN UNCHANGED <<feedVars, wpc, readings, tsSeq, observedAt, ticker>>
       ELSE IF m.type = "ticker"
         THEN IF m.price \in DecimalTexts
                THEN /\ readings < MaxReadings
                     /\ price' = Some(FromNumber(m.price), readings + 1)
                     /\ readings' = readings + 1
                     /\ ticker' = [ticker EXCEPT !.text = m.price]
                     /\ wpc' = "stamp"
                     /\ UNCHANGED <<timestamp, expired, tsSeq, observedAt>>
                ELSE UNCHANGED <<feedVars, wpc, readings, tsSeq, observedAt,
                                 ticker>>
       ELSE IF m.type = "heartbeat"
         THEN /\ GdaxProcessHeartbeat
              /\ observedAt' = now
              /\ UNCHANGED <<price, expired, wpc, readings, tsSeq, ticker>>
       ELSE UNCHANGED <<feedVars, wpc, readings, tsSeq, observedAt, ticker>>
    /\ UNCHANGED <<writerRest, retryVars, connVars, logVars>>

\* _process_ticker: self._last_timestamp = time.time()
GdaxTickerStamp ==
    /\ kind = "gdax" /\ wpc = "stamp"
    /\ timestamp' = now
    /\ tsSeq' = readings
    /\ observedAt' = now
    /\ ticker' = [ticker EXCEPT !.at = now]
    /\ wpc' = "flag"
    /\ UNCHANGED <<writerRest, price, expired, retryVars, connVars, readings,
                   logVars, io>>

\* _process_ticker: if self._expired: logger.info("... became available")
GdaxTestFlag ==
    /\ kind = "gdax" /\ wpc = "flag"
    /\ IF expired
         THEN LogTransition("available") /\ wpc' = "setflag"
         ELSE UNCHANGED logVars /\ wpc' = "idle"
    /\ UNCHANGED <<writerRest, feedVars, retryVars, connVars, readings, tsSeq,
                   observedAt, ticker, io>>

\* _process_ticker: self._expired = False
GdaxSetFlag ==
    /\ kind = "gdax" /\ wpc = "setflag"
    /\ expired' = FALSE
    /\ wpc' = "idle"
    /\ UNCHANGED <<writerRest, price, timestamp, retryVars, connVars, histVars>>

\* the websocket thread
GdaxBackgroundRun ==
    \/ GdaxConnect
    \/ GdaxOnOpen
    \/ GdaxOnError
    \/ GdaxDisconnect
    \/ \E m \in GdaxMessages : GdaxOnMessage(m)
    \/ GdaxTickerStamp
    \/ GdaxTestFlag
    \/ GdaxSetFlag

\* ------------------------------------------- get_price (threaded feeds)
IsStale_AtLeast(t, ts, e) == t - ts >= e

\* time.time() - self._timestamp > self.expiry
IsStale(t, ts, e) == t - ts > e

\* ApplyTargetPrice.get_price: "if price is None: return None", else go on
\* to the division; a feed called directly just returns.
Continue(p) == IF wrapped /\ p.some THEN "scale" ELSE "done"

\* get_price, first statement: the expiry test
GetPriceCheck(r) ==
    /\ rd[r].pc \in {"idle", "done"}
    /\ rd' = [rd EXCEPT ![r] =
                Frame(IF IsStale(now, timestamp, expiry) THEN "stale" ELSE "fresh",
                      None,
                      now - observedAt > expiry,
                      tsSeq,
                      kind = "gdax" /\ observedAt > ticker.at)]
    /\ UNCHANGED <<readerRest, feedVars, histVars>>

\* stale branch: if not self._expired: logger.warning("... has expired");
\* with the flag already set, return None
GetPriceTestFlag(r) ==
    /\ rd[r].pc = "stale"
    /\ IF ~expired
         THEN LogTransition("expired") /\ rd' = [rd EXCEPT ![r].pc = "setexp"]
         ELSE UNCHANGED logVars /\ rd' = [rd EXCEPT ![r].pc = "done"]
    /\ UNCHANGED <<readerRest, feedVars, readings, tsSeq, observedAt, ticker,
                   io>>

\* self._expired = True; return None
GetPriceExpire(r) ==
    /\ rd[r].pc = "setexp"
    /\ expired' = TRUE
    /\ rd' = [rd EXCEPT ![r].pc = "done", ![r].res = None]
    /\ UNCHANGED <<readerRest, price, timestamp, histVars>>

\* else: return self._price
GetPriceReturn(r) ==
    /\ rd[r].pc = "fresh"
    /\ rd' = [rd EXCEPT ![r].pc = Continue(price), ![r].res = price]
    /\ UNCHANGED <<readerRest, feedVars, histVars>>

\* SetzerPriceFeed.get_price
SetzerGetPrice(r) ==
    /\ kind = "setzer"
    /\ \/ GetPriceCheck(r)
       \/ GetPriceTestFlag(r)
       \/ GetPriceExpire(r)
       \/ GetPriceReturn(r)

\* GdaxPriceFeed.get_price
GdaxGetPrice(r) ==
    /\ kind = "gdax"
    /\ \/ GetPriceCheck(r)
       \/ GetPriceTestFlag(r)
       \/ GetPriceExpire(r)
       \/ GetPriceReturn(r)

\* BiboxPriceFeed.get_price
BiboxGetPrice(r) ==
    /\ kind = "bibox"
    /\ \/ GetPriceCheck(r)
       \/ GetPriceTestFlag(r)
       \/ GetPriceExpire(r)
       \/ GetPriceReturn(r)

\* --------------------------------------------------------- FilePriceFeed
\* FilePriceFeed has no thread of its own: everything happens inside
\* get_price(), on the caller's thread.  Its calls are taken one at a time.
FileCaller == "r1"

\* Another process writes the file: a decimal price, or (NoText) something
\* that is not JSON or has no 'price'.
FileWrite(c) ==
    /\ kind = "file" /\ file.ver < MaxFileOps
    /\ file' = [exists |-> TRUE, content |-> c, mtime |-> now,
                ver |-> file.ver + 1]
    /\ UNCHANGED <<confVars, now, feedVars, retryVars, wpc, connVars, par, rd,
                   histVars>>

\* Another process deletes the file.
FileDelete ==
    /\ kind = "file" /\ file.ver < MaxFileOps
    /\ file.exists
    /\ file' = [NoFile EXCEPT !.ver = file.ver + 1]
    /\ UNCHANGED <<confVars, now, feedVars, retryVars, wpc, connVars, par, rd,
                   histVars>>

FileSystem ==
    \/ \E c \in DecimalTexts \cup {NoText} : FileWrite(c)
    \/ FileDelete

FileBegin_KeepOnMissing(r) ==
    /\ kind = "file" /\ r = FileCaller
    /\ rd[r].pc \in {"idle", "done"}
    /\ io' = io \cup {"accessor"}
    /\ rd' = [rd EXCEPT ![r] =
                [Frame(IF file.exists THEN "open" ELSE "check", None, FALSE,
                       0, FALSE)
                 EXCEPT !.ver = file.ver,
                        !.base = IF file.exists THEN price ELSE None]]
    /\ UNCHANGED <<feedVars, tsSeq, observedAt>>
    /\ UNCHANGED <<readerRest, readings, ticker, logVars>>

\* get_price -> _read_price: if not os.path.isfile(self.filename):
\*     self._price = None; self._timestamp = 0; return
FileBegin(r) ==
    /\ kind = "file" /\ r = FileCaller
    /\ rd[r].pc \in {"idle", "done"}
    /\ io' = io \cup {"accessor"}
    /\ IF file.exists
         THEN /\ rd' = [rd EXCEPT ![r] =
                          [Frame("open", None, FALSE, 0, FALSE)
                           EXCEPT !.ver = file.ver, !.base = price]]
              /\ UNCHANGED <<feedVars, tsSeq, observedAt>>
         ELSE /\ price' = None
              /\ timestamp' = 0
              /\ tsSeq' = 0
              /\ observedAt' = 0
              /\ rd' = [rd EXCEPT ![r] =
                          [Frame("check", None, FALSE, 0, FALSE)
                           EXCEPT !.ver = file.ver]]
              /\ UNCHANGED expired
    /\ UNCHANGED <<readerRest, readings, ticker, logVars>>

\* with open(...) as file: new_price = Wad.from_number(json.load(file)['price'])
\* ...; self._price = new_price
FileLoadOk(r) ==
    /\ kind = "file" /\ rd[r].pc = "open"
    /\ file.exists /\ file.content \in DecimalTexts
    /\ price' = Some(FromNumber(file.content), file.ver)
    /\ rd' = [rd EXCEPT ![r].pc = "stat"]
    /\ UNCHANGED <<readerRest, timestamp, expired, histVars>>

FileLoadFail_Unset(r) ==
    /\ kind = "file" /\ rd[r].pc = "open"
    /\ ~(file.exists /\ file.content \in DecimalTexts)
    /\ price' = None
    /\ timestamp' = 0
    /\ rd' = [rd EXCEPT ![r].pc = "check", ![r].base = None]
    /\ UNCHANGED <<readerRest, expired, histVars>>

\* open, json.load, ['price'] or from_number raised: except Exception, only
\* logged
FileLoadFail(r) ==
    /\ kind = "file" /\ rd[r].pc = "open"
    /\ ~(file.exists /\ file.content \in DecimalTexts)
    /\ rd' = [rd EXCEPT ![r].pc = "check", ![r].base = None]
    /\ UNCHANGED <<readerRest, feedVars, histVars>>

FileStatOk_ReadTime(r) ==
    /\ kind = "file" /\ rd[r].pc = "stat"
    /\ file.exists
    /\ timestamp' = now
    /\ tsSeq' = file.ver
    /\ observedAt' = file.mtime
    /\ rd' = [rd EXCEPT ![r].pc = "check", ![r].base = None]
    /\ UNCHANGED <<readerRest, price, expired, readings, ticker, logVars, io>>

\* self._timestamp = os.path.getmtime(self.filename)
FileStatOk(r) ==
    /\ kind = "file" /\ rd[r].pc = "stat"
    /\ file.exists
    /\ timestamp' = file.mtime
    /\ tsSeq' = file.ver
    /\ observedAt' = file.mtime
    /\ rd' = [rd EXCEPT ![r].pc = "check", ![r].base = None]
    /\ UNCHANGED <<readerRest, price, expired, readings, ticker, logVars, io>>

\* os.path.getmtime raised (the file is gone): except Exception, only logged
FileStatFail(r) ==
    /\ kind = "file" /\ rd[r].pc = "stat"
    /\ ~file.exists
    /\ rd' = [rd EXCEPT ![r].pc = "check", ![r].base = None]
    /\ UNCHANGED <<readerRest, feedVars, histVars>>

\* get_price after _read_price: the expiry test, the flag and its log line,
\* and the return
FileCheck(r) ==
    /\ kind = "file" /\ rd[r].pc = "check"
    /\ LET stale == now - observedAt > expiry
       IN  IF IsStale(now, timestamp, expiry)
             THEN /\ IF ~expired THEN LogTransition("expired")
                                 ELSE UNCHANGED logVars
                  /\ expired' = TRUE
                  /\ rd' = [rd EXCEPT ![r].pc = "done", ![r].res = None,
                                      ![r].stale = stale, ![r].seq = tsSeq]
             ELSE /\ IF expired THEN LogTransition("available")
                                ELSE UNCHANGED logVars
                  /\ expired' = FALSE
                  /\ rd' = [rd EXCEPT ![r].pc = Continue(price),
                                      ![r].res = price,
                                      ![r].stale = stale, ![r].seq = tsSeq]
    /\ UNCHANGED <<readerRest, price, timestamp, readings, tsSeq, observedAt,
                   ticker, io>>

\* FilePriceFeed.get_price
FileGetPrice(r) ==
    \/ FileBegin(r)
    \/ FileLoadOk(r)
    \/ FileLoadFail(r)
    \/ FileStatOk(r)
    \/ FileStatFail(r)
    \/ FileCheck(r)

\* ------------------------------------------------------ ApplyTargetPrice
ApplyTargetPriceDivide_Skip(r) ==
    /\ wrapped /\ rd[r].pc = "scale"
    /\ rd' = [rd EXCEPT ![r].pc = "done"]
    /\ UNCHANGED <<readerRest, feedVars, histVars>>

\* return price / Wad(self.vox.par())
ApplyTargetPriceDivide(r) ==
    /\ wrapped /\ rd[r].pc = "scale"
    /\ rd' = [rd EXCEPT ![r].pc = "done",
                        ![r].res = Some(WadDiv(rd[r].res.val, WadFromRay(par)),
                                        rd[r].res.seq)]
    /\ UNCHANGED <<readerRest, feedVars, histVars>>

\* The target price changes on chain.
VoxParChange ==
    /\ wrapped
    /\ par' \in ParValues \ {par}
    /\ UNCHANGED <<confVars, now, feedVars, retryVars, wpc, connVars, file, rd,
                   histVars>>

\* ------------------------------------------------------ PriceFeedFactory
Uppers ==
    <<"A", "B", "C", "D", "E", "F", "G", "H", "I", "J", "K", "L", "M",
      "N", "O", "P", "Q", "R", "S", "T", "U", "V", "W", "X", "Y", "Z">>
Lowers ==
    <<"a", "b", "c", "d", "e", "f", "g", "h", "i", "j", "k", "l", "m",
      "n", "o", "p", "q", "r", "s", "t", "u", "v", "w", "x", "y", "z">>

LowerChar(c) ==
    IF \E i \in DOMAIN Uppers : Uppers[i] = c
      THEN Lowers[CHOOSE i \in DOMAIN Uppers : Uppers[i] = c]
      ELSE c

Lower_Identity(s) == s

\* str.lower()
Lower(s) == [i \in DOMAIN s |-> LowerChar(s[i])]

\* str.startswith(prefix)
StartsWith(s, prefix) ==
    Len(s) >= Len(prefix) /\ SubSeq(s, 1, Len(prefix)) = prefix

\* s[n:]
From(s, n) == SubSeq(s, n + 1, Len(s))

Digits == <<"0", "1", "2", "3", "4", "5", "6", "7", "8", "9">>
AllDigits(d) ==
    d # <<>> /\ \A i \in DOMAIN d : \E k \in DOMAIN Digits : Digits[k] = d[i]
DigitValue(c) == (CHOOSE k \in DOMAIN Digits : Digits[k] = c) - 1

RECURSIVE DigitsValue(_)
DigitsValue(d) ==
    IF d = <<>> THEN 0
    ELSE 10 * DigitsValue(SubSeq(d, 1, Len(d) - 1)) + DigitValue(d[Len(d)])

\* The texts Wad.from_number takes as a number with at most two decimals:
\* digits, or digits "." digits.
IsDecimal(s) ==
    \/ AllDigits(s)
    \/ \E i \in DOMAIN s :
          /\ s[i] = "."
          /\ AllDigits(SubSeq(s, 1, i - 1))
          /\ AllDigits(From(s, i))
          /\ Len(From(s, i)) <= 2

\* The decimal text "w.hh" of such a str.
ParseDecimal(s) ==
    IF AllDigits(s) THEN <<DigitsValue(s), 0>>
    ELSE LET i == CHOOSE i \in DOMAIN s : s[i] = "."
             frac == From(s, i)
         IN  <<DigitsValue(SubSeq(s, 1, i - 1)),
               IF Len(frac) = 1 THEN 10 * DigitsValue(frac)
                                ELSE DigitsValue(frac)>>

NoSource_Default == Product("SetzerPriceFeed", <<>>, 0)

\* else: raise Exception("'--price-feed' not specified, but no 'Tub' ...")
NoSource == Raised("Exception")

\* The branches of create_price_feed.  Wad.from_number raises on a text
\* that is no number, before FixedPriceFeed is constructed.
Select ==
    IF selector.given
      THEN IF Lower(selector.text) = GdaxToken
             THEN Product("GdaxPriceFeed", GdaxProduct, 0)
           ELSE IF StartsWith(selector.text, FixedPrefix)
             THEN IF IsDecimal(From(selector.text, 6))
                    THEN Product("FixedPriceFeed", <<>>,
                                 FromNumber(ParseDecimal(From(selector.text, 6))))
                    ELSE Raised("InvalidOperation")
           ELSE IF StartsWith(selector.text, FilePrefix)
             THEN Product("FilePriceFeed", From(selector.text, 5), 0)
           ELSE Product("SetzerPriceFeed", selector.text, 0)
    ELSE IF tub
      THEN Product("TubPriceFeed", <<>>, 0)
    ELSE NoSource

KindOf(cls) ==
    CASE cls = "GdaxPriceFeed" -> "gdax"
      [] cls = "FixedPriceFeed" -> "fixed"
      [] cls = "FilePriceFeed" -> "file"
      [] cls = "SetzerPriceFeed" -> "setzer"
      [] cls = "TubPriceFeed" -> "tub"
      [] OTHER -> "none"

Wrapping_Vox == vox

\* "# if vox is not None: return ApplyTargetPrice(price_feed, vox)" is
\* commented out: return price_feed
Wrapping == FALSE

\* PriceFeedFactory.create_price_feed; the constructor it calls starts the
\* feed's background thread.
CreatePriceFeed ==
    /\ kind = "none" /\ made = NotMade
    /\ made' = Select
    /\ kind' = KindOf(made'.cls)
    /\ threads' = BackgroundThreads(kind')
    /\ wrapped' = (made'.cls # "none" /\ Wrapping)
    /\ UNCHANGED <<expiry, retryCap, selector, tub, vox, now, feedVars,
                   retryVars, wpc, connVars, file, par, rd, histVars>>

\* FixedPriceFeed.get_price: return self.fixed_price
FixedGetPrice(r) ==
    /\ kind = "fixed"
    /\ rd[r].pc \in {"idle", "done"}
    /\ rd' = [rd EXCEPT ![r] =
                Frame(Continue(Some(made.fixed, 0)), Some(made.fixed, 0),
                      FALSE, 0, FALSE)]
    /\ UNCHANGED <<readerRest, feedVars, histVars>>

\* create_price_feed has not been called yet.
InitFactory ==
    /\ kind = "none"
    /\ wrapped = FALSE
    /\ retryCap = MaxRetries
    /\ selector \in Selectors
    /\ tub \in BOOLEAN
    /\ vox \in BOOLEAN
    /\ made = NotMade
    /\ par \in ParValues
    /\ InitFeed

\* ------------------------------------------------------------------ spec
Next ==
    \/ Tick
    \/ SetzerBackgroundRun
    \/ BiboxBackgroundRun
    \/ GdaxBackgroundRun
    \/ FileSystem
    \/ \E r \in Readers : SetzerGetPrice(r)
    \/ \E r \in Readers : GdaxGetPrice(r)
    \/ \E r \in Readers : BiboxGetPrice(r)
    \/ \E r \in Readers : FileGetPrice(r)

Spec == Init /\ [][Next]_vars

\* A SetzerPriceFeed behind ApplyTargetPrice.
NextScaled ==
    \/ Tick
    \/ SetzerBackgroundRun
    \/ \E r \in Readers : SetzerGetPrice(r)
    \/ \E r \in Readers : ApplyTargetPriceDivide(r)
    \/ VoxParChange

SpecScaled == InitScaled /\ [][NextScaled]_vars

\* Startup: create_price_feed, then calls of the feed it returned.
NextFactory ==
    \/ CreatePriceFeed
    \/ Tick
    \/ \E r \in Readers : FixedGetPrice(r)

SpecFactory == InitFactory /\ [][NextFactory]_vars

\* A SetzerPriceFeed whose source can fail more than RetryWarning times in
\* a row, with one caller.
SingleCaller == "r1"

InitRetry ==
    /\ kind = "setzer"
    /\ wrapped = FALSE
    /\ retryCap = MaxFailures
    /\ Direct
    /\ par = RayPerWad * WadUnit
    /\ InitFeed

NextRetry ==
    \/ Tick
    \/ SetzerBackgroundRun
    \/ SetzerGetPrice(SingleCaller)

SpecRetry == InitRetry /\ [][NextRetry]_vars

\* The polled feeds with one caller.  The background thread, once it holds
\* a fetched price, is scheduled until it has published it; the caller keeps
\* calling get_price().  Nothing is assumed about the source: a fetch may
\* fail, or not come back.
InitPolled ==
    /\ kind \in {"setzer", "bibox"}
    /\ wrapped = FALSE
    /\ retryCap = MaxRetries
    /\ Direct
    /\ par = RayPerWad * WadUnit
    /\ InitFeed

Publish ==
    \/ SetzerStamp
    \/ SetzerTestFlag
    \/ SetzerSetFlag
    \/ BiboxStamp
    \/ BiboxTestFlag
    \/ BiboxSetFlag

PolledGetPrice ==
    \/ SetzerGetPrice(SingleCaller)
    \/ BiboxGetPrice(SingleCaller)

NextPolled ==
    \/ Tick
    \/ SetzerBackgroundRun
    \/ BiboxBackgroundRun
    \/ PolledGetPrice

SpecPolledFair ==
    InitPolled /\ [][NextPolled]_vars /\ WF_vars(Publish)
               /\ WF_vars(PolledGetPrice)

\* A GdaxPriceFeed with one caller.
InitStream ==
    /\ kind = "gdax"
    /\ wrapped = FALSE
    /\ retryCap = MaxRetries
    /\ Direct
    /\ par = RayPerWad * WadUnit
    /\ InitFeed

NextStream ==
    \/ Tick
    \/ GdaxBackgroundRun
    \/ GdaxGetPrice(SingleCaller)

SpecStream == InitStream /\ [][NextStream]_vars

\* The websocket thread, whenever run_forever has returned, is scheduled
\* to sleep its second and start over.  Nothing is assumed about the
\* network.
SpecStreamFair == InitStream /\ [][NextStream]_vars /\ WF_vars(GdaxConnect)

\* ---------------------------------------------------------------- claims
Done(r) == rd[r].pc = "done"
Threaded == kind \in {"setzer", "gdax", "bibox"}

\* r's call of get_price() returns in this step
Returns(r) == rd'[r] # rd[r] /\ rd'[r].pc = "done"

\* The value of a decimal text, in hundredths.
Hundredths(text) == text[1] * 100 + text[2]

\* C1: for every feed and under every interleaving, a call of get_price()
\* returns None when now - last_observed_at > expiry held at its expiry
\* test, and otherwise returns the price the feed has last published (the
\* value of its price field when the call returns).
C1_ExpiryRule ==
    [][\A r \in Readers :
         Returns(r) =>
           rd'[r].res = IF rd'[r].stale THEN None ELSE price]_vars

\* a call that answered None for a feed that holds a price but is too old,
\* beside a call that answered a price
C1_Witness ==
    \E r, q \in Readers :
      /\ Done(r) /\ rd[r].stale /\ ~rd[r].res.some /\ price.some
      /\ Done(q) /\ ~rd[q].stale /\ rd[q].res.some

\* C2: a feed that has received no price reading answers None to every
\* call, whatever the expiry: every price a call returns is the price of a
\* reading the feed received (reading numbers start at 1).
C2_NeverReadIsAbsent ==
    \A r \in Readers : Done(r) /\ rd[r].res.some => rd[r].res.seq >= 1

\* no reading yet, timestamp still 0, expiry not smaller than the time: the
\* call took the "fresh" branch and still answered None
C2_Witness ==
    /\ tsSeq = 0 /\ timestamp = 0 /\ ~price.some /\ expiry >= now
    /\ \E r \in Readers : Done(r) /\ ~rd[r].stale /\ ~rd[r].res.some

\* C3: the staleness transitions logged strictly alternate between "became
\* available" and "has expired": the same one is never logged twice in a row.
C3_EventsAlternate == ~dupEvent

\* C4: a call never returns the price of one reading after testing the
\* timestamp of a different reading.
C4_AtomicPair ==
    \A r \in Readers :
      Threaded /\ Done(r) /\ rd[r].res.some /\ rd[r].seq >= 1 =>
        rd[r].res.seq = rd[r].seq

\* C5: a call that starts after the background thread finished publishing
\* reading k (price and timestamp stored) returns None or the price of a
\* reading j >= k.
C5_NeverOlder ==
    \A r \in Readers :
      Threaded /\ Done(r) /\ rd[r].res.some => rd[r].res.seq >= rd[r].seq

\* a call that began after the second reading was published returned a price
C5_Witness ==
    Threaded /\ \E r \in Readers : Done(r) /\ rd[r].res.some /\ rd[r].seq >= 2

\* C6: GdaxPriceFeed: when the last ticker or heartbeat is within the expiry
\* window at the call and no newer ticker is being processed, get_price()
\* returns the price of the last ticker; when no ticker or heartbeat arrived
\* within the window it returns None.
C6_StreamedScenario ==
    \A r \in Readers :
      kind = "gdax" /\ Done(r) =>
        /\ rd[r].stale => ~rd[r].res.some
        /\ ~rd[r].stale /\ rd[r].seq >= 1 /\ rd[r].seq = readings =>
             rd[r].res.some /\ rd[r].res.val = Hundredths(ticker.text)

\* expiry 0: the ticker is too old at the call, a later heartbeat is not,
\* and the call returned the ticker's price
C6_Witness ==
    /\ kind = "gdax" /\ expiry = 0
    /\ \E r \in Readers :
         /\ Done(r) /\ rd[r].beat /\ ~rd[r].stale /\ rd[r].seq = readings
         /\ rd[r].res.some /\ rd[r].res.val = Hundredths(ticker.text)

\* C7: FilePriceFeed: a call made while the file holds a valid price p,
\* within the expiry window of the file's modification time, returns p; a
\* call made while the file is deleted returns None.  (The file is not
\* changed during the call.)
C7_FileScenario ==
    \A r \in Readers :
      kind = "file" /\ Done(r) /\ rd[r].ver = file.ver =>
        /\ file.exists /\ file.content \in DecimalTexts /\ ~rd[r].stale =>
             rd[r].res.some /\ rd[r].res.val = Hundredths(file.content)
        /\ ~file.exists => ~rd[r].res.some

\* the file was written and deleted, and the call after the deletion logged
\* the expiry and answered None
C7_Witness ==
    /\ kind = "file" /\ ~file.exists /\ file.ver >= 2
    /\ lastEvent = "expired"
    /\ \E r \in Readers : Done(r) /\ rd[r].ver = file.ver /\ ~rd[r].res.some

C9_FailureContained ==
    [][/\ \A r \in Readers : ~rd'[r].raised
       /\ SetzerFetchFail => UNCHANGED feedVars
       /\ BiboxFetchFail => UNCHANGED feedVars
       /\ \A r \in Readers :
            FileLoadFail(r) \/ FileStatFail(r) =>
              /\ price'.some = rd[r].base.some
              /\ price'.val = rd[r].base.val
              /\ UNCHANGED <<timestamp, expired>>]_vars

\* b is the Wad quotient a / s rounded down
IsQuotient(b, a, s) == b * s <= a * 100 /\ a * 100 < (b + 1) * s

\* C10: ApplyTargetPrice.get_price() returns None when the inner feed
\* returns None, and otherwise the inner price divided by the target price;
\* it never returns without dividing.
C10_Scaled ==
    [][\A r \in Readers :
         /\ rd'[r].pc = "scale" => rd'[r].res.some
         /\ Returns(r) =>
              IF rd[r].pc = "scale"
                THEN /\ rd'[r].res.some
                     /\ IsQuotient(rd'[r].res.val, rd[r].res.val, par \div 10)
                ELSE ~rd'[r].res.some]_vars

\* 100.0 / 2.0 = 50.0
C10_Witness ==
    /\ wrapped /\ par = 2000
    /\ \E r \in Readers : Done(r) /\ rd[r].res.some /\ rd[r].res.val = 5000

\* The selectors of each kind, written out.
StreamingTokens ==
    {GdaxToken,
     <<"G", "D", "A", "X", "-", "W", "e", "b", "S", "o", "c", "k", "e", "t">>}
FixedDecimals == {<<"4", "2", ".", "5">>, <<"7">>}
FixedValue(d) == IF d = <<"7">> THEN 700 ELSE 4250
OtherTexts ==
    {<<"F", "i", "x", "e", "d", ":", "7">>, <<"f", "i", "l", "e">>,
     <<"e", "t", "h">>, <<>>}

C12_ConfigError ==
    ~selector.given /\ ~tub /\ made # NotMade =>
      /\ made.raised = "Exception" /\ made.cls = "none"
      /\ kind = "none" /\ threads = 0 /\ io = {}

\* the call has raised the configuration error
C12_Witness == ~selector.given /\ ~tub /\ made.raised = "Exception"

\* C20: create_price_feed never wraps the feed in ApplyTargetPrice, with or
\* without a vox: the feed it returns is the selected provider, and the
\* price reported is not divided by the target price.
C20_NeverWrapped ==
    made.cls # "none" =>
      /\ ~wrapped
      /\ kind = KindOf(made.cls)
      /\ \A r \in Readers :
           kind = "fixed" /\ rd[r].pc # "idle" =>
             Done(r) /\ rd[r].res = Some(made.fixed, 0)

\* a vox with target price 2.0 was supplied and "fixed:42.5" still answers
\* 42.5
C20_Witness ==
    /\ vox /\ par = 2 * RayPerWad * WadUnit
    /\ selector = Given(FixedPrefix \o <<"4", "2", ".", "5">>)
    /\ \E r \in Readers : Done(r) /\ rd[r].res.val = 4250

\* C13: whenever get_price() of a threaded feed returns a price (after
\* testing the timestamp of a reading), the expired flag is False at that
\* return.
C13_FlagAgrees ==
    [][\A r \in Readers :
         Threaded /\ Returns(r) /\ rd'[r].res.some /\ rd'[r].seq >= 1 =>
           ~expired']_vars

\* C14 as claimed: a missing file and a failed read (unreadable, invalid
\* JSON, no 'price') both leave the reading unset: price None, timestamp 0.
C14_FailedReadUnsets ==
    [][\A r \in Readers :
         (FileBegin(r) /\ ~file.exists) \/ FileLoadFail(r) =>
           price' = None /\ timestamp' = 0]_vars

\* C14 as amended: a missing file unsets the reading (price None, timestamp
\* 0) and it stays unset until a file is read successfully; a failed read of
\* an existing file leaves price and timestamp as they were.
C14_MissingUnsetsFailedKeeps ==
    [][/\ \A r \in Readers :
            FileBegin(r) /\ ~file.exists => price' = None /\ timestamp' = 0
       /\ \A r \in Readers :
            FileLoadFail(r) => price' = price /\ timestamp' = timestamp
       /\ kind = "file" /\ price = None /\ timestamp = 0
            /\ ~(\E r \in Readers : FileLoadOk(r)) =>
            price' = None /\ timestamp' = 0]_vars

\* the file was overwritten with something unreadable, and the call made
\* after that still answered the price read before
C14_Witness ==
    /\ kind = "file" /\ file.exists /\ file.content = NoText
    /\ \E r \in Readers : Done(r) /\ rd[r].ver = file.ver /\ rd[r].res.some

\* C15: FilePriceFeed: a call that reads the file's content successfully
\* while the file's modification time is older than now - expiry returns
\* None, however recent the read itself is.  (The file is not changed during
\* the call.)
C15_MtimeRules ==
    \A r \in Readers :
      /\ kind = "file" /\ Done(r) /\ rd[r].ver = file.ver
      /\ file.exists /\ file.content \in DecimalTexts
      /\ rd[r].stale
      => ~rd[r].res.some

\* the file holds a price that was just read, its modification time is too
\* old, and the call answered None
C15_Witness ==
    /\ kind = "file" /\ file.exists /\ file.content \in DecimalTexts
    /\ price.some /\ tsSeq = file.ver /\ timestamp = file.mtime
    /\ now - file.mtime > expiry
    /\ \E r \in Readers :
         Done(r) /\ rd[r].ver = file.ver /\ rd[r].stale /\ ~rd[r].res.some

\* The feed holds a published reading that has not expired.
Fresh == price.some /\ tsSeq >= 1 /\ ~IsStale(now, timestamp, expiry)

\* The caller's last call answered a price.
Answered == Done(SingleCaller) /\ rd[SingleCaller].res.some

Subscribed ==
    /\ sent.type = "subscribe"
    /\ {c.name : c \in sent.channels} = {"ticker", "heartbeat"}
    /\ \A c \in sent.channels : c.product_ids = <<GdaxProduct>>

\* C17: GdaxPriceFeed: whenever the connection is closed (after an error or
\* a close) the thread starts to connect again, for ever; and on every
\* connection the subscribe request for the ticker and heartbeat channels
\* has been sent before a message of that connection is processed.
C17_Reconnects ==
    /\ [](conn = "closed" => <>(conn = "connecting"))
    /\ [](conn \in {"closed", "connecting", "open"})
    /\ [](conn = "open" => Subscribed)
    /\ [][(\E m \in GdaxMessages : GdaxOnMessage(m)) => Subscribed]_vars

\* a ticker was processed on a connection that has since been closed, and
\* the thread is connecting again
C17_Witness ==
    kind = "gdax" /\ conn = "connecting" /\ ticker.at >= 1 /\ tsSeq >= 1

\* C18: GdaxPriceFeed._on_message: a "subscriptions" message, a message of
\* an unknown type and a malformed message (not JSON, no 'type', a ticker
\* without a parsable 'price') leave price, timestamp and expired flag
\* unchanged and the connection open; a heartbeat sets the timestamp and
\* leaves price and expired flag unchanged.
C18_MessageFrame ==
    [][\A m \in GdaxMessages :
         GdaxOnMessage(m) =>
           /\ conn' = "open"
           /\ \/ m.type \in {"subscriptions", "unknown", "invalid"}
              \/ m.type = "ticker" /\ m.price = NoText
              => UNCHANGED feedVars
           /\ m.type = "heartbeat" =>
                timestamp' = now /\ UNCHANGED <<price, expired>>]_vars

\* a heartbeat later than the last ticker has moved the timestamp; the
\* price is still the ticker's and the flag still set
C18_Witness ==
    /\ kind = "gdax" /\ conn = "open" /\ wpc = "idle"
    /\ price.some /\ ticker.at >= 1 /\ timestamp > ticker.at /\ expired

\* C19: SetzerPriceFeed: the retry counter equals the number of failed
\* fetches since the last successful one; a failed fetch logs the retry
\* warning exactly when that number exceeds 10; and a failed fetch, whatever
\* the count, leaves price, timestamp and expired flag unchanged and the
\* loop at its next fetch.
C19_RetryCounter ==
    [][/\ retries' = fails'
       /\ SetzerFetchFail =>
            /\ warned' <=> fails' > 10
            /\ UNCHANGED feedVars
            /\ wpc' = "idle"
       /\ SetzerFetchOk => retries' = 0]_vars

\* the eleventh failure in a row has logged the warning, and the price
\* fetched before the failures is still stored
C19_Witness ==
    kind = "setzer" /\ warned /\ retries = 11 /\ price.some /\ tsSeq >= 1

====
